---- MODULE Spec2Model ----
(***************************************************************************)
(* EuroMillions analysis: the NumberAnalyzer of                            *)
(* src/app/analysis/number_analyzer.py as a state machine.                 *)
(*                                                                         *)
(* The state is the draws table, the analyzer after construction (the draw history loaded   *)
(* into draws_df by _load_data), the current date, and the last public     *)
(* call with its outcome (a returned value or a raised exception).         *)
(***************************************************************************)
EXTENDS Integers, Sequences, FiniteSets, TLC

VARIABLES
    store,      \* the draws table of the database: a set of Draw rows
    draws_df,   \* self.draws_df: [none |-> TRUE] for None, else the rows, ascending by date
    today,      \* date.today(), as a day number
    op,         \* the last public call and its arguments
    ret         \* its outcome: a returned value or a raised exception

vars == <<store, draws_df, today, op, ret>>

(***************************************************************************)
(* Program constants.                                                      *)
(***************************************************************************)
NUM_MAIN_NUMBERS == 5
NUM_LUCKY_STARS == 2
MAX_MAIN_NUMBER == 50
MAX_LUCKY_STAR == 12
\* the default of lookback_periods
DefaultLookback == 10
\* the draw_number of a row that was stored without one (NULL)
DrawNumberNull == -1
\* collect_all_historical_data: the number of batches and of retries
initial_batches == 20
max_retries == 3
\* the fewest samples generate_prediction_model goes on with
MinSamples == 10

(***************************************************************************)
(* Bounds of the model.                                                    *)
(***************************************************************************)
\* date.today() of the run, in days
Today == 20000
\* draws of the bulk import that the history may start from
BulkLen == 19
\* draws added on top of it, at dates around the window cutoffs
MaxRecent == 2
\* the longest batch of draws handed to an ingestion command
MaxBatch == 2
\* the number of ingestion commands run in a row
MaxIngest == 2
\* the largest value of the fill loop when it is followed pass by pass
MaxFillValue == 4
\* the most samples handed to _split_data
MaxSamples == 10

(***************************************************************************)
(* Draw histories.  Draw contents cycle over two recorded draws of         *)
(* HISTORICAL_DRAWS; dates are given by their age in days.                 *)
(***************************************************************************)
Pool ==
    << [main_numbers |-> <<6, 9, 13, 24, 41>>, lucky_stars |-> <<3, 12>>],
       [main_numbers |-> <<9, 15, 17, 25, 40>>, lucky_stars |-> <<3, 9>>] >>

PoolDraw(k) == Pool[(k % Len(Pool)) + 1]

\* ages of the recent draws: on and one day past each window cutoff
RecentAges == {91, 92, 182, 183, 365, 366, 3650, 3651}

\* ages of the bulk draws: weekly, the two newest inside the 10 year window
BulkAges == {3640 + 7 * k : k \in 0 .. (BulkLen - 1)}

\* The draws table of the database, a set of rows with distinct dates
StoredDraws(bulk, seed, ages) ==
    LET all == IF bulk THEN ages \cup BulkAges ELSE ages
        \* position of an age among all ages, oldest first
        pos(a) == Cardinality({b \in all : b > a})
    IN  {[id |-> pos(a) + 1,
          draw_number |-> DrawNumberNull,
          draw_date |-> Today - a,
          main_numbers |-> PoolDraw(seed + pos(a)).main_numbers,
          lucky_stars |-> PoolDraw(seed + pos(a)).lucky_stars] : a \in all}

\* a function on 1 .. n as the list of its values (a list, or a dict with
\* the keys 1 .. n in insertion order)
Dict(f) == << >> \o f

\* db.query(Draw).order_by(Draw.draw_date.asc()).all()
OrderByDate(S) ==
    Dict([i \in 1 .. Cardinality(S) |->
        CHOOSE r \in S : Cardinality({q \in S : q.draw_date < r.draw_date}) = i - 1])

\* NumberAnalyzer._load_data: draws_df stays None when the table is empty and
\* when the query raises (the exception is logged and swallowed)
LoadData(S, query_raises) ==
    IF query_raises \/ S = {} THEN [none |-> TRUE, rows |-> << >>]
    ELSE [none |-> FALSE,
          rows |-> LET draws == OrderByDate(S)
                   IN  Dict([i \in DOMAIN draws |->
                           [draw_date |-> draws[i].draw_date,
                            main_numbers |-> draws[i].main_numbers,
                            lucky_stars |-> draws[i].lucky_stars]])]

\* a guard that tests "is not None and len(...) == 0"
IsNoData_NotNone(df) == ~df.none /\ Len(df.rows) = 0

\* self.draws_df is None or len(self.draws_df) == 0
IsNoData(df) == df.none \/ Len(df.rows) = 0

(***************************************************************************)
(* Python helpers.                                                         *)
(***************************************************************************)
Min(a, b) == IF a <= b THEN a ELSE b

\* range(1, max_value + 1) as a list
RangeList(max_value) == [i \in 1 .. max_value |-> i]

\* sorted(items, key=count, reverse=True): stable, so items with equal
\* counts keep the order they have in items
\* a descending sort that lists items with equal counts in reverse order
SortedByCountDesc_TiesReversed(items, count) ==
    LET before == Dict([j \in DOMAIN items |->
                     Cardinality({k \in DOMAIN items :
                         \/ count[items[k]] > count[items[j]]
                         \/ count[items[k]] = count[items[j]] /\ k > j})])
    IN  Dict([i \in DOMAIN items |->
            items[CHOOSE j \in DOMAIN items : before[j] = i - 1]])

SortedByCountDesc(items, count) ==
    LET \* how many items come before the item at index j
        before == Dict([j \in DOMAIN items |->
                     Cardinality({k \in DOMAIN items :
                         \/ count[items[k]] > count[items[j]]
                         \/ count[items[k]] = count[items[j]] /\ k < j})])
    IN  Dict([i \in DOMAIN items |->
            items[CHOOSE j \in DOMAIN items : before[j] = i - 1]])

\* sorted(list) of integers, ascending; duplicates are kept
Sorted(list) ==
    LET before == Dict([j \in DOMAIN list |->
                     Cardinality({k \in DOMAIN list :
                         list[k] < list[j] \/ (list[k] = list[j] /\ k < j)})])
    IN  Dict([i \in DOMAIN list |->
            list[CHOOSE j \in DOMAIN list : before[j] = i - 1]])

\* a hot tier of the top 10%
IntTimes02_Tenth(max_value) == max_value \div 10

\* int(max_value * 0.2) and int(max_value * 0.3)
IntTimes02(max_value) == (max_value * 2) \div 10
IntTimes03(max_value) == (max_value * 3) \div 10

(***************************************************************************)
(* Outcomes of a call.                                                     *)
(***************************************************************************)
Return(v) == [kind |-> "return", value |-> v]
Raise(e) == [kind |-> "raise", exc |-> e]

\* the empty dict {}
EmptyDict == << >>

(***************************************************************************)
(* NumberAnalyzer._filter_by_time_period                                   *)
(***************************************************************************)
RecognizedCutoffs == {"10years", "year", "6months", "3months"}

CutoffDays(time_period) ==
    CASE time_period = "10years" -> 3650
      [] time_period = "year" -> 365
      [] time_period = "6months" -> 182
      [] time_period = "3months" -> 91

\* a cutoff comparison that leaves out the draw on the cutoff date
filter_by_time_period_Exclusive(rows, now, time_period) ==
    IF time_period = "all" THEN rows
    ELSE IF time_period \in RecognizedCutoffs
         THEN SelectSeq(rows,
                  LAMBDA r : r.draw_date > now - CutoffDays(time_period))
         ELSE rows

\* an unrecognized window that falls back to the shortest window
filter_by_time_period_UnknownShortest(rows, now, time_period) ==
    IF time_period = "all" THEN rows
    ELSE SelectSeq(rows,
             LAMBDA r : r.draw_date >= now -
                 CutoffDays(IF time_period \in RecognizedCutoffs
                            THEN time_period ELSE "3months"))

filter_by_time_period(rows, now, time_period) ==
    IF time_period = "all" THEN rows
    ELSE IF time_period \in RecognizedCutoffs
         THEN SelectSeq(rows,
                  LAMBDA r : r.draw_date >= now - CutoffDays(time_period))
         ELSE rows

(***************************************************************************)
(* NumberAnalyzer._count_number_frequency                                  *)
(***************************************************************************)
\* row['main_numbers'] or row['lucky_stars']
RowNumbers(row, number_type) ==
    IF number_type = "main" THEN row.main_numbers ELSE row.lucky_stars

\* counting loops that miss the last number of each draw
CountOccurrences_SkipLast(rows, number_type, num) ==
    Cardinality({ij \in {<<i, j>> : i \in DOMAIN rows,
                                     j \in 1 .. Len(RowNumbers(rows[1], number_type)) - 1} :
                    RowNumbers(rows[ij[1]], number_type)[ij[2]] = num})

\* a frequency dict that is kept from the previous call instead of being
\* initialised to zero
CountOccurrences_NotReset(rows, number_type, num) ==
    Cardinality({ij \in {<<i, j>> : i \in DOMAIN rows,
                                     j \in 1 .. Len(RowNumbers(rows[1], number_type))} :
                    RowNumbers(rows[ij[1]], number_type)[ij[2]] = num})
    + (IF op.name = "analyze_number_frequency" /\ ret.kind = "return"
       THEN LET table == IF number_type = "main" THEN ret.value.main
                         ELSE ret.value.stars
            IN  IF num \in DOMAIN table THEN table[num].count ELSE 0
       ELSE 0)

\* frequency[num] after the counting loops
CountOccurrences(rows, number_type, num) ==
    Cardinality({ij \in {<<i, j>> : i \in DOMAIN rows,
                                     j \in 1 .. Len(RowNumbers(rows[1], number_type))} :
                    RowNumbers(rows[ij[1]], number_type)[ij[2]] = num})

\* a denominator that takes 5 numbers per draw for both families
DrawsCount_MainForBoth(rows, number_type) == Len(rows) * NUM_MAIN_NUMBERS

\* len(df) * NUM_MAIN_NUMBERS, or len(df) * NUM_LUCKY_STARS
DrawsCount(rows, number_type) ==
    IF number_type = "main" THEN Len(rows) * NUM_MAIN_NUMBERS
    ELSE Len(rows) * NUM_LUCKY_STARS

\* (count / draws_count) * 100, kept exact as a fraction num / den
Percentage(count, draws_count) == [num |-> count * 100, den |-> draws_count]

\* tier tests with <= in place of <
StatusOfIndex_OffByOne(i, max_value) ==
    LET hot_count == IntTimes02(max_value)
        warm_count == IntTimes03(max_value)
        cool_count == IntTimes03(max_value)
    IN  IF i <= hot_count THEN "hot"
        ELSE IF i <= hot_count + warm_count THEN "warm"
        ELSE IF i <= hot_count + warm_count + cool_count THEN "cool"
        ELSE "cold"

\* the status given to position i (from 0) of sorted_numbers
StatusOfIndex(i, max_value) ==
    LET hot_count == IntTimes02(max_value)
        warm_count == IntTimes03(max_value)
        cool_count == IntTimes03(max_value)
    IN  IF i < hot_count THEN "hot"
        ELSE IF i < hot_count + warm_count THEN "warm"
        ELSE IF i < hot_count + warm_count + cool_count THEN "cool"
        ELSE "cold"

count_number_frequency(rows, number_type, max_value) ==
    LET count == Dict([num \in 1 .. max_value |->
                     IF rows = << >> THEN 0
                     ELSE CountOccurrences(rows, number_type, num)])
        draws_count == DrawsCount(rows, number_type)
    IN  IF draws_count = 0 THEN Raise("ZeroDivisionError")
        ELSE LET sorted_numbers == SortedByCountDesc(RangeList(max_value), count)
                 index == Dict([num \in 1 .. max_value |->
                              CHOOSE i \in DOMAIN sorted_numbers :
                                  sorted_numbers[i] = num])
             IN  Return(Dict([num \in 1 .. max_value |->
                     [count |-> count[num],
                      percentage |-> Percentage(count[num], draws_count),
                      status |-> StatusOfIndex(index[num] - 1, max_value)]]))

(***************************************************************************)
(* NumberAnalyzer.analyze_number_frequency                                 *)
(***************************************************************************)
analyze_number_frequency(df, now, time_period) ==
    IF IsNoData(df) THEN Return([main |-> EmptyDict, stars |-> EmptyDict])
    ELSE LET filtered_df == filter_by_time_period(df.rows, now, time_period)
             main_numbers_freq ==
                 count_number_frequency(filtered_df, "main", MAX_MAIN_NUMBER)
             lucky_stars_freq ==
                 count_number_frequency(filtered_df, "lucky_stars", MAX_LUCKY_STAR)
         IN  IF main_numbers_freq.kind = "raise" THEN main_numbers_freq
             ELSE IF lucky_stars_freq.kind = "raise" THEN lucky_stars_freq
             ELSE Return([main |-> main_numbers_freq.value,
                          stars |-> lucky_stars_freq.value])

(***************************************************************************)
(* NumberAnalyzer._select_numbers                                          *)
(***************************************************************************)
\* numbers_by_status maps a status to its numbers, highest count first;
\* selection_counts is a list of <<status, count>>
\* a selection in which a tier with fewer numbers than asked for gives none
RECURSIVE select_numbers_SkipsShortTier(_, _)
select_numbers_SkipsShortTier(numbers_by_status, selection_counts) ==
    IF selection_counts = << >> THEN << >>
    ELSE LET last == selection_counts[Len(selection_counts)]
             available == numbers_by_status[last[1]]
             to_select == IF last[2] <= Len(available) THEN last[2] ELSE 0
         IN  select_numbers_SkipsShortTier(numbers_by_status,
                            SubSeq(selection_counts, 1, Len(selection_counts) - 1))
                \o SubSeq(available, 1, to_select)

RECURSIVE select_numbers(_, _)
select_numbers(numbers_by_status, selection_counts) ==
    IF selection_counts = << >> THEN << >>
    ELSE LET last == selection_counts[Len(selection_counts)]
             available == numbers_by_status[last[1]]
             to_select == Min(last[2], Len(available))
         IN  select_numbers(numbers_by_status,
                            SubSeq(selection_counts, 1, Len(selection_counts) - 1))
                \o SubSeq(available, 1, to_select)

(***************************************************************************)
(* NumberAnalyzer.get_hot_cold_recommendations                             *)
(***************************************************************************)
Statuses == {"hot", "warm", "cool", "cold"}

\* main_by_status / lucky_by_status: each group in dict order, then sorted by
\* count, highest first
ByStatus(freq) ==
    LET count == Dict([num \in DOMAIN freq |-> freq[num].count])
    IN  [status \in Statuses |->
            SortedByCountDesc(
                SelectSeq(RangeList(Len(freq)), LAMBDA num : freq[num].status = status),
                count)]

\* selection counts in which mixed takes 3 hot and 2 cold main numbers
MainPlan_MixedMostlyHot(strategy) ==
    IF strategy = "hot" THEN << <<"hot", 4>>, <<"warm", 1>> >>
    ELSE IF strategy = "cold" THEN << <<"cold", 4>>, <<"cool", 1>> >>
    ELSE IF strategy = "mixed" THEN << <<"hot", 3>>, <<"cold", 2>> >>
    ELSE << <<"hot", 2>>, <<"warm", 1>>, <<"cool", 1>>, <<"cold", 1>> >>

\* the selection counts of a strategy for main numbers
MainPlan(strategy) ==
    IF strategy = "hot" THEN << <<"hot", 4>>, <<"warm", 1>> >>
    ELSE IF strategy = "cold" THEN << <<"cold", 4>>, <<"cool", 1>> >>
    ELSE IF strategy = "mixed" THEN << <<"hot", 2>>, <<"cold", 3>> >>
    ELSE << <<"hot", 2>>, <<"warm", 1>>, <<"cool", 1>>, <<"cold", 1>> >>

\* selection counts in which only the name balanced gets the balanced plan
LuckyPlan_UnknownAsHot(strategy) ==
    IF strategy = "cold" THEN << <<"cold", 2>> >>
    ELSE IF strategy = "mixed" THEN << <<"hot", 1>>, <<"cold", 1>> >>
    ELSE IF strategy = "balanced" THEN << <<"hot", 1>>, <<"cold", 1>> >>
    ELSE << <<"hot", 2>> >>

\* the selection counts of a strategy for lucky stars
LuckyPlan(strategy) ==
    IF strategy = "hot" THEN << <<"hot", 2>> >>
    ELSE IF strategy = "cold" THEN << <<"cold", 2>> >>
    ELSE IF strategy = "mixed" THEN << <<"hot", 1>>, <<"cold", 1>> >>
    ELSE << <<"hot", 1>>, <<"cold", 1>> >>

\* freq is the outcome of the call's self.analyze_number_frequency(time_period)
get_hot_cold_recommendations(freq, time_period, strategy) ==
        IF freq.kind = "raise" THEN freq
        ELSE IF freq.value.main = EmptyDict \/ freq.value.stars = EmptyDict
        THEN Return([main_numbers |-> << >>, lucky_stars |-> << >>])
        ELSE LET main_picks ==
                     select_numbers(ByStatus(freq.value.main), MainPlan(strategy))
                 lucky_picks ==
                     select_numbers(ByStatus(freq.value.stars), LuckyPlan(strategy))
             IN  Return([main_numbers |-> Sorted(main_picks),
                         lucky_stars |-> Sorted(lucky_picks),
                         time_period |-> time_period,
                         strategy |-> strategy])

(***************************************************************************)
(* NumberAnalyzer._prepare_prediction_data                                 *)
(***************************************************************************)
\* the 7 numbers of rows first .. last, row after row
FeatureVector(rows, first, last) ==
    LET per_row == NUM_MAIN_NUMBERS + NUM_LUCKY_STARS
    IN  Dict([j \in 1 .. per_row * (last - first + 1) |->
            (rows[first + (j - 1) \div per_row].main_numbers
                \o rows[first + (j - 1) \div per_row].lucky_stars)
                    [((j - 1) % per_row) + 1]])

\* a feature window shifted by one draw, so that it ends on the target draw
prepare_prediction_data_IncludesTarget(rows, lookback_periods) ==
    Dict([k \in 1 .. (Len(rows) - lookback_periods) |->
        [features |-> FeatureVector(rows, k + 1, k + lookback_periods),
         target_main |-> rows[k + lookback_periods].main_numbers,
         target_stars |-> rows[k + lookback_periods].lucky_stars]])

\* sample k (from 1) is built at i = lookback_periods + k - 1 (from 0)
prepare_prediction_data(rows, lookback_periods) ==
    Dict([k \in 1 .. (Len(rows) - lookback_periods) |->
        [features |-> FeatureVector(rows, k, k + lookback_periods - 1),
         target_main |-> rows[k + lookback_periods].main_numbers,
         target_stars |-> rows[k + lookback_periods].lucky_stars]])

(***************************************************************************)
(* NumberAnalyzer._ensure_unique_predictions                               *)
(***************************************************************************)
\* the values np.random.randint(1, max_value + 1) returns in the model
RandValues(max_value) == {1, 2, 3, 9, max_value}

\* the orders in which the elements of a set can be listed
RECURSIVE ListsOf(_)
ListsOf(S) ==
    IF S = {} THEN {<< >>}
    ELSE UNION {{<<x>> \o l : l \in ListsOf(S \ {x})} : x \in S}

\* a fill loop that appends every candidate, also one the list already holds
RECURSIVE FillRandom_NoMembershipTest(_, _, _)
FillRandom_NoMembershipTest(unique_predictions, max_value, required_count) ==
    IF Len(unique_predictions) >= required_count THEN {unique_predictions}
    ELSE UNION {FillRandom_NoMembershipTest(Append(unique_predictions, candidate),
                                            max_value, required_count) :
                   candidate \in RandValues(max_value)}

\* the fill loop: candidates are drawn until the list has required_count values
RECURSIVE FillRandom(_, _, _)
FillRandom(unique_predictions, max_value, required_count) ==
    IF Len(unique_predictions) >= required_count THEN {unique_predictions}
    ELSE UNION {FillRandom(Append(unique_predictions, candidate),
                           max_value, required_count) :
                   candidate \in {c \in RandValues(max_value) :
                                     \A j \in DOMAIN unique_predictions :
                                         unique_predictions[j] # c}}

\* the predictions as they are, duplicates kept
ensure_unique_predictions_NoDedup(predictions, max_value, required_count) ==
    {SubSeq(predictions, 1, required_count)}

\* the lists the call can return: list(set(predictions)) in some order,
\* filled with random candidates, cut to required_count
ensure_unique_predictions(predictions, max_value, required_count) ==
    UNION {{SubSeq(filled, 1, required_count) :
               filled \in FillRandom(unique_predictions, max_value, required_count)} :
           unique_predictions \in
               ListsOf({predictions[j] : j \in DOMAIN predictions})}

(***************************************************************************)
(* NumberAnalyzer._split_data                                              *)
(***************************************************************************)
\* the order in which a generator seeded with random_state lists n samples:
\* a function of n and random_state alone, here a rotation of 1 .. n
Shuffle(n, random_state) ==
    Dict([i \in 1 .. n |-> ((i - 1 + random_state) % n) + 1])

\* train_test_split(X, y, train_size=train_size, random_state=random_state):
\* floor(train_size * n) samples train, the others test; the test samples are
\* the first of the shuffled order.  train_size is the fraction num / den.
train_test_split(X, y, train_size, random_state) ==
    LET n == Len(X)
        n_train == (train_size.num * n) \div train_size.den
        n_test == n - n_train
        permutation == Shuffle(n, random_state)
        test == SubSeq(permutation, 1, n_test)
        train == SubSeq(permutation, n_test + 1, n)
    IN  [X_train |-> Dict([i \in DOMAIN train |-> X[train[i]]]),
         X_test |-> Dict([i \in DOMAIN test |-> X[test[i]]]),
         y_train |-> Dict([i \in DOMAIN train |-> y[train[i]]]),
         y_test |-> Dict([i \in DOMAIN test |-> y[test[i]]])]

\* a split that seeds the generator differently for the star targets
split_data_StarsOtherSeed(X, y_main, y_stars, train_size) ==
    LET main_split == train_test_split(X, y_main, train_size, 42)
        stars_split == train_test_split(X, y_stars, train_size, 43)
    IN  [X_train |-> main_split.X_train,
         X_test |-> main_split.X_test,
         y_main_train |-> main_split.y_train,
         y_main_test |-> main_split.y_test,
         y_stars_train |-> stars_split.y_train,
         y_stars_test |-> stars_split.y_test]

split_data(X, y_main, y_stars, train_size) ==
    LET main_split == train_test_split(X, y_main, train_size, 42)
        stars_split == train_test_split(X, y_stars, train_size, 42)
    IN  [X_train |-> main_split.X_train,
         X_test |-> main_split.X_test,
         y_main_train |-> main_split.y_train,
         y_main_test |-> main_split.y_test,
         y_stars_train |-> stars_split.y_train,
         y_stars_test |-> stars_split.y_test]

(***************************************************************************)
(* NumberAnalyzer._get_latest_features                                     *)
(***************************************************************************)
\* a window that reaches back to the draw before the newest one
get_latest_features_SkipNewest(rows, lookback_periods) ==
    FeatureVector(rows, Len(rows) - lookback_periods, Len(rows) - 1)

\* range(len(self.draws_df) - lookback_periods, len(self.draws_df)), from 0
get_latest_features(rows, lookback_periods) ==
    FeatureVector(rows, Len(rows) - lookback_periods + 1, Len(rows))

(***************************************************************************)
(* NumberAnalyzer.generate_prediction_model                                *)
(***************************************************************************)
\* a guard that also rejects a history of exactly lookback_periods + 10 draws
InsufficientData_AtMost(df, lookback_periods) ==
    df.none \/ Len(df.rows) <= lookback_periods + 10

\* self.draws_df is None or len(self.draws_df) < lookback_periods + 10
InsufficientData(df, lookback_periods) ==
    df.none \/ Len(df.rows) < lookback_periods + 10

\* the raw predictions of the slot models: each model predicts one of the
\* classes of its slot's training targets (the split keeps 8 of every 10
\* samples for training, so any sample can be among them)
SlotClasses(samples, family, i) ==
    {IF family = "main" THEN samples[k].target_main[i]
     ELSE samples[k].target_stars[i] : k \in DOMAIN samples}

RECURSIVE RawPredictions(_, _, _)
RawPredictions(samples, slots, family) ==
    IF slots = 0 THEN {<< >>}
    ELSE {Append(p, c) : p \in RawPredictions(samples, slots - 1, family),
                         c \in SlotClasses(samples, family, slots)}

\* the body of the try block: the outcomes it can have.  Fitting a forest on
\* feature vectors of width 0 raises ValueError, and so does predicting from
\* a vector whose width differs from the training width.
TrainAndPredict(rows, lookback_periods) ==
    LET samples == prepare_prediction_data(rows, lookback_periods)
        latest_features == get_latest_features(rows, lookback_periods)
    IN  IF Len(samples) < 10
        THEN {Return([success |-> FALSE,
                      error |-> "Insufficient data after preparation"])}
        ELSE IF \/ Len(samples[1].features) = 0
                \/ Len(latest_features) # Len(samples[1].features)
        THEN {Raise("ValueError")}
        ELSE LET predicted_main ==
                     UNION {ensure_unique_predictions(
                                p, MAX_MAIN_NUMBER, NUM_MAIN_NUMBERS) :
                            p \in RawPredictions(samples, NUM_MAIN_NUMBERS, "main")}
                 predicted_stars ==
                     UNION {ensure_unique_predictions(
                                p, MAX_LUCKY_STAR, NUM_LUCKY_STARS) :
                            p \in RawPredictions(samples, NUM_LUCKY_STARS, "stars")}
                 sorted_main == {Sorted(m) : m \in predicted_main}
                 sorted_stars == {Sorted(st) : st \in predicted_stars}
             IN  {Return([success |-> TRUE,
                          main_numbers |-> m,
                          lucky_stars |-> st,
                          lookback_periods |-> lookback_periods]) :
                     m \in sorted_main, st \in sorted_stars}

\* a handler that lets the exception through
ExceptAsFailure_Reraise(outcomes) == outcomes

\* except Exception as e: return {'success': False, 'error': str(e)}
ExceptAsFailure(outcomes) ==
    {IF outcome.kind = "raise"
     THEN Return([success |-> FALSE, error |-> outcome.exc])
     ELSE outcome : outcome \in outcomes}

\* the outcomes the call can have
generate_prediction_model(df, lookback_periods) ==
    IF InsufficientData(df, lookback_periods)
    THEN {Return([success |-> FALSE, error |-> "Insufficient data"])}
    ELSE ExceptAsFailure(TrainAndPredict(df.rows, lookback_periods))

(***************************************************************************)
(* NumberAnalyzer.combine_strategies                                       *)
(***************************************************************************)
strategies == <<"hot", "cold", "balanced", "mixed">>
time_periods == <<"3months", "6months", "year", "all">>

\* the first n passes of the loop: the recommendations appended, or the
\* exception a pass raised; analysis[t] is the outcome of
\* analyze_number_frequency(time_periods[t])
FrequencyRecommendations(analysis, n) ==
    LET \* pass i (from 0) of the loop, kept at index i + 1
        recommendation ==
            Dict([k \in 1 .. n |->
                get_hot_cold_recommendations(
                    analysis[((k - 1) \div Len(strategies)) + 1],
                    time_periods[((k - 1) \div Len(strategies)) + 1],
                    strategies[((k - 1) % Len(strategies)) + 1])])
        raised == {k \in 1 .. n : recommendation[k].kind = "raise"}
    IN  IF n <= 0 THEN Return(<< >>)
        ELSE IF raised # {}
        THEN recommendation[CHOOSE k \in raised : \A j \in raised : k <= j]
        ELSE Return(Dict([k \in 1 .. n |->
                        [type |-> "frequency"] @@ recommendation[k].value]))

\* the outcomes the call can have; ml_predictions are the outcomes that its
\* self.generate_prediction_model() can have
combine_strategies(ml_predictions, analysis, recommendations_count) ==
    LET frequency == FrequencyRecommendations(analysis,
                        Min(recommendations_count - 1,
                            Len(strategies) * Len(time_periods)))
    IN  {IF frequency.kind = "raise" THEN frequency
         ELSE IF ml_prediction.value.success
              THEN Return(<<[main_numbers |-> ml_prediction.value.main_numbers,
                             lucky_stars |-> ml_prediction.value.lucky_stars,
                             strategy |-> "Machine Learning",
                             time_period |-> ml_prediction.value.lookback_periods,
                             type |-> "prediction"]>> \o frequency.value)
              ELSE Return(frequency.value) :
            ml_prediction \in ml_predictions}

(***************************************************************************)
(* NumberAnalyzer.visualize_number_frequency                               *)
(***************************************************************************)
\* freq is the outcome of the call's self.analyze_number_frequency; a path
\* is the list of its parts and "" is the empty list
visualize_number_frequency(freq, time_period) ==
    IF freq.kind = "raise" THEN freq
    ELSE IF freq.value.main = EmptyDict \/ freq.value.stars = EmptyDict
    THEN Return(<< >>)
    ELSE Return(<<"frequency_analysis", time_period>>)

(***************************************************************************)
(* NumberAnalyzer.generate_complete_analysis                               *)
(***************************************************************************)
\* sorted(items, key=count): ascending and stable
SortedByCountAsc(items, count) ==
    LET before == Dict([j \in DOMAIN items |->
                     Cardinality({k \in DOMAIN items :
                         \/ count[items[k]] < count[items[j]]
                         \/ count[items[k]] = count[items[j]] /\ k < j})])
    IN  Dict([i \in DOMAIN items |->
            items[CHOOSE j \in DOMAIN items : before[j] = i - 1]])

\* the numbers of a table with a status, in dict order, sorted by count
Hottest(freq) == ByStatus(freq)["hot"]

Coldest(freq) ==
    SortedByCountAsc(
        SelectSeq(RangeList(Len(freq)), LAMBDA num : freq[num].status = "cold"),
        Dict([num \in DOMAIN freq |-> freq[num].count]))

\* result['summary']: len(self.draws_df) raises TypeError when draws_df is None
Summary(df, overall) ==
    IF overall.kind = "raise" THEN overall
    ELSE IF df.none THEN Raise("TypeError")
    ELSE Return([hottest_main_numbers |-> Hottest(overall.value.main),
                 coldest_main_numbers |-> Coldest(overall.value.main),
                 hottest_lucky_stars |-> Hottest(overall.value.stars),
                 coldest_lucky_stars |-> Coldest(overall.value.stars),
                 total_draws_analyzed |-> Len(df.rows),
                 date_range |-> [first_draw |-> df.rows[1].draw_date,
                                 last_draw |-> df.rows[Len(df.rows)].draw_date]])

\* the outcomes the call can have; analysis[t] is the outcome of
\* analyze_number_frequency(time_periods[t]) and combined are the outcomes
\* that its self.combine_strategies(5) can have
generate_complete_analysis(df, analysis, combined) ==
    LET chart == Dict([t \in DOMAIN time_periods |->
                     visualize_number_frequency(analysis[t], time_periods[t])])
        raised == {t \in DOMAIN time_periods : chart[t].kind = "raise"}
        \* analyze_number_frequency('all')
        summary == Summary(df, analysis[Len(time_periods)])
    IN  IF raised # {}
        THEN {chart[CHOOSE t \in raised : \A u \in raised : t <= u]}
        ELSE {IF recommendations.kind = "raise" THEN recommendations
              ELSE IF summary.kind = "raise" THEN summary
              ELSE Return([charts |->
                              [frequency |-> Dict([t \in DOMAIN time_periods |->
                                                     chart[t].value]),
                               prediction_performance |->
                                   <<"prediction_performance">>],
                           recommendations |-> recommendations.value,
                           summary |-> summary.value]) :
                 recommendations \in combined}

(***************************************************************************)
(* The draws table and the sessions that write to it.                      *)
(***************************************************************************)
\* a parsed draw has its five balls and two stars; a malformed one lacks some
IsWellFormed(draw_data) ==
    /\ Len(draw_data.main_numbers) = NUM_MAIN_NUMBERS
    /\ Len(draw_data.lucky_stars) = NUM_LUCKY_STARS

\* a commit that inserts the pending rows without the unique index on draw_date
Commit_NoUniqueIndex(table, pending) ==
    IF \E i \in DOMAIN pending : ~IsWellFormed(pending[i])
    THEN [ok |-> FALSE, table |-> table]
    ELSE [ok |-> TRUE,
          table |-> table \cup {[id |-> Cardinality(table) + i] @@ pending[i] :
                                   i \in DOMAIN pending}]

\* db.commit(): the pending rows are inserted, unless one of them breaks a
\* constraint of Draw (draw_date unique, the balls not NULL); then nothing is
\* inserted and the commit raises
Commit(table, pending) ==
    IF \/ \E i \in DOMAIN pending : ~IsWellFormed(pending[i])
       \/ \E i \in DOMAIN pending : \E row \in table :
              row.draw_date = pending[i].draw_date
       \/ \E i, j \in DOMAIN pending :
              i < j /\ pending[i].draw_date = pending[j].draw_date
    THEN [ok |-> FALSE, table |-> table]
    ELSE [ok |-> TRUE,
          table |-> table \cup {[id |-> Cardinality(table) + i] @@ pending[i] :
                                   i \in DOMAIN pending}]

(***************************************************************************)
(* kaggle_importer.save_draws_to_database, historical_importer.import_year *)
(* and sample_data_generator.generate_sample_data                          *)
(***************************************************************************)
\* the loop of the importers: a draw whose date is stored is skipped, any
\* other is added and committed on its own; a failed commit is rolled back
RECURSIVE CommitEach(_, _, _)
CommitEach(table, draws, imported_count) ==
    IF draws = << >> THEN [table |-> table, ret |-> Return(imported_count)]
    ELSE LET draw_data == Head(draws)
             committed == Commit(table, <<draw_data>>)
         IN  IF \E row \in table : row.draw_date = draw_data.draw_date
             THEN CommitEach(table, Tail(draws), imported_count)
             ELSE IF committed.ok
             THEN CommitEach(committed.table, Tail(draws), imported_count + 1)
             ELSE CommitEach(table, Tail(draws), imported_count)

\* draws.sort(key=lambda x: x['draw_date']): stable
SortedByDate(draws) ==
    LET before == Dict([j \in DOMAIN draws |->
                     Cardinality({k \in DOMAIN draws :
                         \/ draws[k].draw_date < draws[j].draw_date
                         \/ draws[k].draw_date = draws[j].draw_date /\ k < j})])
    IN  Dict([i \in DOMAIN draws |->
            draws[CHOOSE j \in DOMAIN draws : before[j] = i - 1]])

save_draws_to_database(table, draws) ==
    CommitEach(table, SortedByDate(draws), 0)

\* draws are the parsed draws of the year; parse_draw gives None for a
\* malformed one, which is passed over
import_year(table, draws) ==
    CommitEach(table, SelectSeq(draws, IsWellFormed), 0)

\* the dates the generator makes draws for
SampleDates == <<Today - 92, Today - 1>>

generate_sample_data(table) ==
    CommitEach(table,
               Dict([i \in DOMAIN SampleDates |->
                       [draw_number |-> DrawNumberNull,
                        draw_date |-> SampleDates[i],
                        main_numbers |-> PoolDraw(i).main_numbers,
                        lucky_stars |-> PoolDraw(i).lucky_stars]]),
               0)

(***************************************************************************)
(* DataProcessor.process_draws                                             *)
(***************************************************************************)
\* _process_single_draw for each draw of the batch: the rows the session
\* holds pending afterwards and the number of draws reported as new.  The
\* query sees the committed rows only (the session does not autoflush); a
\* malformed draw raises KeyError, which rolls the session back.
RECURSIVE ProcessEach(_, _, _, _)
ProcessEach(table, draws, pending, new_draws) ==
    IF draws = << >> THEN [pending |-> pending, new_draws |-> new_draws]
    ELSE LET draw_data == Head(draws)
         IN  IF \E row \in table : row.draw_number = draw_data.draw_number
             THEN ProcessEach(table, Tail(draws), pending, new_draws)
             ELSE IF ~IsWellFormed(draw_data)
             THEN ProcessEach(table, Tail(draws), << >>, new_draws)
             ELSE ProcessEach(table, Tail(draws),
                              Append(pending, draw_data), new_draws + 1)

process_draws(table, draws) ==
    IF draws = << >> THEN [table |-> table, ret |-> Return(0)]
    ELSE LET processed == ProcessEach(table, draws, << >>, 0)
             committed == Commit(table, processed.pending)
         IN  IF committed.ok
             THEN [table |-> committed.table, ret |-> Return(processed.new_draws)]
             ELSE [table |-> table, ret |-> Raise("IntegrityError")]

(***************************************************************************)
(* The state machine.                                                      *)
(***************************************************************************)
\* window tokens a caller passes: the recognized ones and unrecognized ones
UnknownPeriods == {"month", "ALL"}
TimePeriods == {"all"} \cup RecognizedCutoffs \cup UnknownPeriods

\* strategy names a caller passes: the built-in ones and an unknown one
BuiltInStrategies == {"hot", "cold", "mixed", "balanced"}
Strategies == BuiltInStrategies \cup {"lucky"}

\* recommendation counts a caller passes: 3 is the default, 5 is what the
\* complete analysis asks for, 18 is more than the 16 combinations
RecommendationCounts == {1, 3, 5, 18}

\* lookbacks a caller passes: 10 is the default, 5 is the shortest of the
\* performance chart, 0 leaves the feature vectors empty
Lookbacks == {0, 5, 10, 11}

NoCall == [name |-> "none"]

\* the histories: a long one has at most one recent draw, a short one has
\* up to MaxRecent recent draws and no others
Init ==
    /\ \E bulk \in BOOLEAN, seed \in 1 .. Len(Pool), ages \in SUBSET RecentAges,
          query_raises \in BOOLEAN :
          /\ Cardinality(ages) <= (IF bulk THEN 1 ELSE MaxRecent)
          /\ ages \cap BulkAges = {}
          /\ store = StoredDraws(bulk, seed, ages)
          /\ draws_df = LoadData(store, query_raises)
    /\ today = Today
    /\ op = NoCall
    /\ ret = [kind |-> "none"]

\* A command of main.py constructs a NumberAnalyzer and makes one call.
Call(name, args, outcome) == [op |-> [name |-> name] @@ args, ret |-> outcome]

AnalyzeNumberFrequencyCalls(df, now) ==
    {Call("analyze_number_frequency", [time_period |-> time_period, nth |-> 1],
          analyze_number_frequency(df, now, time_period)) :
        time_period \in TimePeriods}

GetHotColdRecommendationsCalls(df, now) ==
    UNION {LET freq == analyze_number_frequency(df, now, time_period)
           IN  {Call("get_hot_cold_recommendations",
                     [time_period |-> time_period, strategy |-> strategy],
                     get_hot_cold_recommendations(freq, time_period, strategy)) :
                   strategy \in Strategies} :
              time_period \in TimePeriods}

CombineStrategiesCalls(df, now) ==
    LET ml_predictions == generate_prediction_model(df, DefaultLookback)
        analysis == Dict([t \in DOMAIN time_periods |->
                        analyze_number_frequency(df, now, time_periods[t])])
    IN  UNION {{Call("combine_strategies",
                     [recommendations_count |-> recommendations_count], outcome) :
                   outcome \in combine_strategies(ml_predictions, analysis,
                                                  recommendations_count)} :
              recommendations_count \in RecommendationCounts}

GenerateCompleteAnalysisCalls(df, now) ==
    LET ml_predictions == generate_prediction_model(df, DefaultLookback)
        analysis == Dict([t \in DOMAIN time_periods |->
                        analyze_number_frequency(df, now, time_periods[t])])
        combined == combine_strategies(ml_predictions, analysis, 5)
    IN  {Call("generate_complete_analysis", << >>, outcome) :
            outcome \in generate_complete_analysis(df, analysis, combined)}

GeneratePredictionModelCalls(df) ==
    UNION {{Call("generate_prediction_model",
                 [lookback_periods |-> lookback_periods], outcome) :
               outcome \in generate_prediction_model(df, lookback_periods)} :
          lookback_periods \in Lookbacks}

\* the private helpers are called on a loaded history that is at least
\* lookback_periods draws long
PreparePredictionDataCalls(df) ==
    {Call("_prepare_prediction_data", [lookback_periods |-> lookback_periods],
          Return(prepare_prediction_data(df.rows, lookback_periods))) :
        lookback_periods \in {l \in Lookbacks : ~df.none /\ l <= Len(df.rows)}}

GetLatestFeaturesCalls(df) ==
    {Call("_get_latest_features", [lookback_periods |-> lookback_periods],
          Return(get_latest_features(df.rows, lookback_periods))) :
        lookback_periods \in {l \in Lookbacks : ~df.none /\ l <= Len(df.rows)}}

AnalyzeNumberFrequency ==
    /\ op = NoCall
    /\ \E call \in AnalyzeNumberFrequencyCalls(draws_df, today) :
           op' = call.op /\ ret' = call.ret
    /\ UNCHANGED <<store, draws_df, today>>

\* a second call on the same analyzer with the same window, as
\* generate_complete_analysis makes for the window all
AnalyzeNumberFrequencyAgain ==
    /\ op.name = "analyze_number_frequency"
    /\ op.nth = 1
    /\ op' = [op EXCEPT !.nth = 2]
    /\ ret' = analyze_number_frequency(draws_df, today, op.time_period)
    /\ UNCHANGED <<store, draws_df, today>>

GetHotColdRecommendations ==
    /\ op = NoCall
    /\ \E call \in GetHotColdRecommendationsCalls(draws_df, today) :
           op' = call.op /\ ret' = call.ret
    /\ UNCHANGED <<store, draws_df, today>>

CombineStrategies ==
    /\ op = NoCall
    /\ \E call \in CombineStrategiesCalls(draws_df, today) :
           op' = call.op /\ ret' = call.ret
    /\ UNCHANGED <<store, draws_df, today>>

GenerateCompleteAnalysis ==
    /\ op = NoCall
    /\ \E call \in GenerateCompleteAnalysisCalls(draws_df, today) :
           op' = call.op /\ ret' = call.ret
    /\ UNCHANGED <<store, draws_df, today>>

GeneratePredictionModel ==
    /\ op = NoCall
    /\ \E call \in GeneratePredictionModelCalls(draws_df) :
           op' = call.op /\ ret' = call.ret
    /\ UNCHANGED <<store, draws_df, today>>

PreparePredictionData ==
    /\ op = NoCall
    /\ \E call \in PreparePredictionDataCalls(draws_df) :
           op' = call.op /\ ret' = call.ret
    /\ UNCHANGED <<store, draws_df, today>>

GetLatestFeatures ==
    /\ op = NoCall
    /\ \E call \in GetLatestFeaturesCalls(draws_df) :
           op' = call.op /\ ret' = call.ret
    /\ UNCHANGED <<store, draws_df, today>>

Next ==
    \/ AnalyzeNumberFrequency
    \/ AnalyzeNumberFrequencyAgain
    \/ GetHotColdRecommendations
    \/ CombineStrategies
    \/ GenerateCompleteAnalysis
    \/ GeneratePredictionModel
    \/ PreparePredictionData
    \/ GetLatestFeatures

Spec == Init /\ [][Next]_vars

(***************************************************************************)
(* The data collection commands: they write to the draws table and         *)
(* construct no analyzer.                                                  *)
(***************************************************************************)
\* a parsed draw dictionary
ParsedDraw(draw_number, draw_date) ==
    [draw_number |-> draw_number,
     draw_date |-> draw_date,
     main_numbers |-> PoolDraw(draw_date).main_numbers,
     lucky_stars |-> PoolDraw(draw_date).lucky_stars]

\* a draw dictionary without its fifth ball
Malformed(draw_data) ==
    [draw_data EXCEPT !.main_numbers = SubSeq(draw_data.main_numbers, 1, 4)]

BatchDates == {SampleDates[i] : i \in DOMAIN SampleDates}

\* draws handed to process_draws: LotteryResultsClient.parse_draw sets the
\* draw number 0, other clients set the number of the draw
ProcessorDraws ==
    {ParsedDraw(n, d) : n \in {0, 7}, d \in BatchDates}
        \cup {Malformed(ParsedDraw(8, SampleDates[2]))}

\* draws handed to the importers carry no draw number
ImporterDraws ==
    {ParsedDraw(DrawNumberNull, d) : d \in BatchDates}
        \cup {Malformed(ParsedDraw(DrawNumberNull, SampleDates[1]))}

\* the lists of at most MaxBatch draws
Batches(draws) == UNION {[1 .. n -> draws] : n \in 0 .. MaxBatch}

\* how many commands have run
Steps == IF op.name = "none" THEN 0 ELSE op.step

CollectInit ==
    /\ store \in {StoredDraws(FALSE, 1, ages) : ages \in {{}, {92}}}
    /\ draws_df = [none |-> TRUE, rows |-> << >>]
    /\ today = Today
    /\ op = NoCall
    /\ ret = [kind |-> "none"]

\* a command that ran on the table: its arguments, the table it leaves and
\* its outcome
Ingest(name, draws, result) ==
    /\ store' = result.table
    /\ op' = [name |-> name, draws |-> draws, step |-> Steps + 1]
    /\ ret' = result.ret
    /\ UNCHANGED <<draws_df, today>>

GenerateSampleData ==
    /\ Steps < MaxIngest
    /\ Ingest("generate_sample_data", << >>, generate_sample_data(store))

SaveDrawsToDatabase ==
    /\ Steps < MaxIngest
    /\ \E draws \in Batches(ImporterDraws) :
           Ingest("save_draws_to_database", draws,
                  save_draws_to_database(store, draws))

ImportYear ==
    /\ Steps < MaxIngest
    /\ \E draws \in Batches(ImporterDraws) :
           Ingest("import_year", draws, import_year(store, draws))

ProcessDraws ==
    /\ Steps < MaxIngest
    /\ \E draws \in Batches(ProcessorDraws) :
           Ingest("process_draws", draws, process_draws(store, draws))

CollectNext ==
    \/ GenerateSampleData
    \/ SaveDrawsToDatabase
    \/ ImportYear
    \/ ProcessDraws

CollectSpec == CollectInit /\ [][CollectNext]_vars

(***************************************************************************)
(* main.collect_all_historical_data: the loop over the batches.            *)
(***************************************************************************)
\* a fetched draw that parse_draw turns into None
Unparsable == [draw_number |-> DrawNumberNull]

\* what get_latest_draws returns: draws as parse_draw leaves them
FetchedBatches ==
    Batches({ParsedDraw(0, d) : d \in BatchDates} \cup {Unparsable})

\* a retry counter that a batch with new draws does not reset
RetryCount_NeverReset(retry_count, event, count) ==
    IF event = "error" THEN retry_count + 1
    ELSE IF event = "processed" /\ count = 0 THEN retry_count + 1
    ELSE retry_count

\* retry_count after a batch
RetryCount(retry_count, event, count) ==
    IF event = "error" THEN retry_count + 1
    ELSE IF event = "processed"
    THEN (IF count = 0 THEN retry_count + 1 ELSE 0)
    ELSE retry_count

\* the checks before the loop pass, or the function returns at once
CollectAllHistoricalData ==
    /\ op = NoCall
    /\ \E connected \in BOOLEAN :
           /\ op' = [name |-> "collect_all_historical_data",
                     event |-> IF connected THEN "started" ELSE "not_started",
                     batch_num |-> 0, retry_count |-> 0, total_processed |-> 0]
           /\ ret' = IF connected THEN [kind |-> "running"] ELSE Return("None")
    /\ UNCHANGED <<store, draws_df, today>>

\* one pass of the loop body, with the break and the end of the range
FetchBatch ==
    /\ op.name = "collect_all_historical_data"
    /\ ret.kind = "running"
    /\ \E draws \in FetchedBatches :
           LET parsed_draws == SelectSeq(draws, LAMBDA d : d # Unparsable)
               result == process_draws(store, parsed_draws)
               event == IF draws = << >> THEN "no_draws"
                        ELSE IF parsed_draws = << >> THEN "no_parsable"
                        ELSE IF result.ret.kind = "raise" THEN "error"
                        ELSE "processed"
               count == IF event = "processed" THEN result.ret.value ELSE 0
               retry_count == RetryCount(op.retry_count, event, count)
           IN  /\ store' = IF event = "processed" THEN result.table ELSE store
               /\ op' = [op EXCEPT !.event = event,
                                   !.batch_num = op.batch_num + 1,
                                   !.retry_count = retry_count,
                                   !.total_processed = op.total_processed + count]
               /\ ret' = IF \/ retry_count >= max_retries
                            \/ op.batch_num + 1 >= initial_batches
                         THEN Return("None")
                         ELSE [kind |-> "running"]
    /\ UNCHANGED <<draws_df, today>>

LoopNext ==
    \/ CollectAllHistoricalData
    \/ FetchBatch

LoopSpec == CollectInit /\ [][LoopNext]_vars

\* the loop is sequential code: a pass that can run does run
LoopLiveSpec == LoopSpec /\ WF_vars(FetchBatch)

(***************************************************************************)
(* _ensure_unique_predictions called on lists of predictions.              *)
(***************************************************************************)
\* lists of 5 main predictions, and lists of 2 and of 3 star predictions
PredictionInputs ==
    {[predictions |-> p, max_value |-> MAX_MAIN_NUMBER,
      required_count |-> NUM_MAIN_NUMBERS] :
        p \in [1 .. NUM_MAIN_NUMBERS -> {3, 9}]}
    \cup {[predictions |-> p, max_value |-> MAX_LUCKY_STAR,
           required_count |-> NUM_LUCKY_STARS] :
             p \in [1 .. NUM_LUCKY_STARS -> {3, 9, 12}]
                      \cup [1 .. (NUM_LUCKY_STARS + 1) -> {3, 9, 12}]}

EnsureInit ==
    /\ store = {}
    /\ draws_df = [none |-> TRUE, rows |-> << >>]
    /\ today = Today
    /\ op = NoCall
    /\ ret = [kind |-> "none"]

EnsureUniquePredictionsCalls ==
    UNION {{Call("_ensure_unique_predictions", input, Return(unique_predictions)) :
               unique_predictions \in
                   ensure_unique_predictions(input.predictions, input.max_value,
                                             input.required_count)} :
          input \in PredictionInputs}

EnsureUniquePredictions ==
    /\ op = NoCall
    /\ \E call \in EnsureUniquePredictionsCalls :
           op' = call.op /\ ret' = call.ret
    /\ UNCHANGED <<store, draws_df, today>>

EnsureNext == EnsureUniquePredictions

EnsureSpec == EnsureInit /\ [][EnsureNext]_vars

(***************************************************************************)
(* The fill loop of _ensure_unique_predictions, pass by pass.              *)
(***************************************************************************)
\* a random source that never gives the lowest value
randint_AboveLow(low, high) == (low + 1) .. (high - 1)

\* np.random.randint(low, high): any integer from low up to high - 1
randint(low, high) == low .. (high - 1)

\* lists of two predictions; required_count up to one more than max_value
FillInputs ==
    {[predictions |-> p, max_value |-> MaxFillValue,
      required_count |-> required_count] :
        p \in [1 .. 2 -> 1 .. 2], required_count \in 1 .. (MaxFillValue + 1)}

\* unique_predictions = list(set(predictions)); the loop is entered next
RemoveDuplicates ==
    /\ op = NoCall
    /\ \E input \in FillInputs :
           \E unique_predictions \in
                  ListsOf({input.predictions[j] : j \in DOMAIN input.predictions}) :
               op' = [name |-> "_ensure_unique_predictions",
                      unique_predictions |-> unique_predictions,
                      candidate |-> 0] @@ input
    /\ ret' = [kind |-> "running"]
    /\ UNCHANGED <<store, draws_df, today>>

\* one pass of the while loop in which the random source gives candidate
FillPass(candidate) ==
    /\ op.name = "_ensure_unique_predictions"
    /\ ret.kind = "running"
    /\ Len(op.unique_predictions) < op.required_count
    /\ candidate \in randint(1, op.max_value + 1)
    /\ op' = [op EXCEPT
                 !.candidate = candidate,
                 !.unique_predictions =
                     IF \A j \in DOMAIN op.unique_predictions :
                            op.unique_predictions[j] # candidate
                     THEN Append(op.unique_predictions, candidate)
                     ELSE op.unique_predictions]
    /\ UNCHANGED <<store, draws_df, today, ret>>

\* the loop is left: the list is cut to required_count and returned
FillReturn ==
    /\ op.name = "_ensure_unique_predictions"
    /\ ret.kind = "running"
    /\ Len(op.unique_predictions) >= op.required_count
    /\ ret' = Return(SubSeq(op.unique_predictions, 1, op.required_count))
    /\ UNCHANGED <<store, draws_df, today, op>>

FillNext ==
    \/ RemoveDuplicates
    \/ \E candidate \in 1 .. (MaxFillValue + 1) : FillPass(candidate)
    \/ FillReturn

FillSpec == EnsureInit /\ [][FillNext]_vars

\* a fair random source: a value that keeps being possible is given in the
\* end; the code after the loop runs
FillLiveSpec ==
    /\ FillSpec
    /\ \A candidate \in 1 .. (MaxFillValue + 1) : WF_vars(FillPass(candidate))
    /\ WF_vars(FillReturn)

(***************************************************************************)
(* _split_data called on prepared samples.                                 *)
(***************************************************************************)
\* the fractions passed as train_size: 0.8 is the default
TrainSizes == {[num |-> 8, den |-> 10], [num |-> 5, den |-> 10]}

\* samples with pairwise distinct feature vectors; the target of a sample is
\* one of the draws of Pool
SplitInputs ==
    UNION {{[X |-> Dict([i \in 1 .. n |-> <<i>>]),
             y_main |-> Dict([i \in 1 .. n |-> Pool[target[i]].main_numbers]),
             y_stars |-> Dict([i \in 1 .. n |-> Pool[target[i]].lucky_stars]),
             train_size |-> train_size] :
               target \in [1 .. n -> DOMAIN Pool], train_size \in TrainSizes} :
          n \in MinSamples .. MaxSamples}

SplitInit ==
    /\ store = {}
    /\ draws_df = [none |-> TRUE, rows |-> << >>]
    /\ today = Today
    /\ op = NoCall
    /\ ret = [kind |-> "none"]

SplitData ==
    /\ op = NoCall
    /\ \E input \in SplitInputs :
           /\ op' = [name |-> "_split_data", nth |-> 1] @@ input
           /\ ret' = Return(split_data(input.X, input.y_main, input.y_stars,
                                       input.train_size))
    /\ UNCHANGED <<store, draws_df, today>>

\* a second call with the same arguments
SplitDataAgain ==
    /\ op.name = "_split_data"
    /\ op.nth = 1
    /\ op' = [op EXCEPT !.nth = 2]
    /\ ret' = Return(split_data(op.X, op.y_main, op.y_stars, op.train_size))
    /\ UNCHANGED <<store, draws_df, today>>

SplitNext ==
    \/ SplitData
    \/ SplitDataAgain

SplitSpec == SplitInit /\ [][SplitNext]_vars

(***************************************************************************)
(* The selection of numbers: _select_numbers and its caller.              *)
(***************************************************************************)
\* the plans of the strategies, and plans that ask a tier for more numbers
\* than it has
SelectionPlans ==
    {MainPlan(strategy) : strategy \in BuiltInStrategies}
    \cup {LuckyPlan(strategy) : strategy \in BuiltInStrategies}
    \cup {<< <<"warm", 4>>, <<"hot", 1>> >>, << <<"cold", 11>>, <<"cool", 2>> >>}

\* main_by_status / lucky_by_status with the (num, count) entries the caller
\* builds
StatusEntries(freq) ==
    LET by_status == ByStatus(freq)
    IN  [status \in Statuses |->
            Dict([i \in DOMAIN by_status[status] |->
                <<by_status[status][i], freq[by_status[status][i]].count>>])]

\* histories with at most one recent draw
SelectInit ==
    /\ \E bulk \in BOOLEAN, seed \in 1 .. Len(Pool),
          ages \in {{}} \cup {{age} : age \in RecentAges} :
          /\ store = StoredDraws(bulk, seed, ages)
          /\ draws_df = LoadData(store, FALSE)
    /\ today = Today
    /\ op = NoCall
    /\ ret = [kind |-> "none"]

SelectNumbersCalls(df, now) ==
    UNION {LET freq == analyze_number_frequency(df, now, time_periods[t])
           IN  IF freq.kind = "raise" \/ freq.value.main = EmptyDict
                    \/ freq.value.stars = EmptyDict
               THEN {}
               ELSE {Call("_select_numbers",
                          [numbers_by_status |-> StatusEntries(table),
                           selection_counts |-> selection_counts],
                          Return(select_numbers(ByStatus(table), selection_counts))) :
                       table \in {freq.value.main, freq.value.stars},
                       selection_counts \in SelectionPlans} :
              t \in DOMAIN time_periods}

\* get_hot_cold_recommendations with freq, the outcome of the call's own
\* analyze_number_frequency, kept with the call
GetHotColdRecommendationsTracedCalls(df, now) ==
    UNION {LET freq == analyze_number_frequency(df, now, time_period)
           IN  {Call("get_hot_cold_recommendations",
                     [time_period |-> time_period, strategy |-> strategy,
                      freq |-> freq],
                     get_hot_cold_recommendations(freq, time_period, strategy)) :
                   strategy \in Strategies} :
              time_period \in TimePeriods}

GetHotColdRecommendationsTraced ==
    /\ op = NoCall
    /\ \E call \in GetHotColdRecommendationsTracedCalls(draws_df, today) :
           op' = call.op /\ ret' = call.ret
    /\ UNCHANGED <<store, draws_df, today>>

SelectNumbers ==
    /\ op = NoCall
    /\ \E call \in SelectNumbersCalls(draws_df, today) :
           op' = call.op /\ ret' = call.ret
    /\ UNCHANGED <<store, draws_df, today>>

SelectNext ==
    \/ SelectNumbers
    \/ GetHotColdRecommendationsTraced

SelectSpec == SelectInit /\ [][SelectNext]_vars

(***************************************************************************)
(* Vocabulary of the properties.                                           *)
(***************************************************************************)
Called(name) == op.name = name

Returned == ret.kind = "return"

\* the length in days of a recognized window
WindowDays(time_period) ==
    CASE time_period = "10years" -> 3650
      [] time_period = "year" -> 365
      [] time_period = "6months" -> 182
      [] time_period = "3months" -> 91

\* the loaded draws that a window covers: those with date >= today - D, and
\* every draw for the window all and for an unrecognized window
DrawsInWindow(time_period) ==
    {i \in DOMAIN draws_df.rows :
        time_period \in {"10years", "year", "6months", "3months"}
            => draws_df.rows[i].draw_date >= today - WindowDays(time_period)}

\* the loaded draw of a given age in days, if any
HasDrawOfAge(days) ==
    \E i \in DOMAIN draws_df.rows : draws_df.rows[i].draw_date = today - days

\* a list of integers is strictly ascending: sorted and free of duplicates
StrictlyAscending(list) ==
    \A i, j \in DOMAIN list : i < j => list[i] < list[j]

\* the sum of the counts of a frequency table
SumOfCounts(table) ==
    Cardinality(UNION {{<<num, c>> : c \in 1 .. table[num].count} :
                          num \in DOMAIN table})

\* how many of the draws W hold the number num, per family
HoldingMain(W, num) ==
    Cardinality({i \in W : \E j \in 1 .. 5 : draws_df.rows[i].main_numbers[j] = num})

HoldingStar(W, num) ==
    Cardinality({i \in W : \E j \in 1 .. 2 : draws_df.rows[i].lucky_stars[j] = num})

\* tiers from hottest to coldest
TierRank(status) ==
    CASE status = "hot" -> 0 [] status = "warm" -> 1
      [] status = "cool" -> 2 [] status = "cold" -> 3

\* the numbers of a table that have a tier
InTier(table, status) == {num \in DOMAIN table : table[num].status = status}

\* the two tables of a returned analysis
ReturnedTables == {ret.value.main, ret.value.stars}

(***************************************************************************)
(* C1.  For every built-in strategy and every window that holds at least   *)
(* one draw, get_hot_cold_recommendations returns exactly 5 main numbers   *)
(* and exactly 2 lucky stars, each list sorted ascending and free of       *)
(* duplicates.                                                             *)
(***************************************************************************)
C1_RecommendationComplete ==
    (/\ Called("get_hot_cold_recommendations")
     /\ op.strategy \in {"hot", "cold", "mixed", "balanced"}
     /\ DrawsInWindow(op.time_period) # {})
    => /\ Returned
       /\ Len(ret.value.main_numbers) = 5
       /\ Len(ret.value.lucky_stars) = 2
       /\ StrictlyAscending(ret.value.main_numbers)
       /\ StrictlyAscending(ret.value.lucky_stars)

\* the cold strategy on a 3 month window that holds one of two loaded draws
C1_Witness ==
    /\ Called("get_hot_cold_recommendations")
    /\ op.strategy = "cold"
    /\ op.time_period = "3months"
    /\ HasDrawOfAge(91) /\ HasDrawOfAge(92)
    /\ Returned
    /\ Len(ret.value.main_numbers) = 5

(***************************************************************************)
(* C2.  For every window and each family, the counts of the frequency      *)
(* table returned by analyze_number_frequency add up to the number of      *)
(* draws the window covers times the numbers per draw (5 main, 2 stars).   *)
(***************************************************************************)
C2_CountsAddUp ==
    (Called("analyze_number_frequency") /\ Returned)
    => LET filtered == IF draws_df.none THEN 0
                       ELSE Cardinality(DrawsInWindow(op.time_period))
       IN  /\ SumOfCounts(ret.value.main) = filtered * 5
           /\ SumOfCounts(ret.value.stars) = filtered * 2

\* a window that covers some of the loaded draws and leaves others out
C2_Witness ==
    /\ Called("analyze_number_frequency")
    /\ op.time_period = "6months"
    /\ Returned
    /\ Cardinality(DrawsInWindow("6months")) = 1
    /\ Len(draws_df.rows) > 2
    /\ SumOfCounts(ret.value.main) = 5

(***************************************************************************)
(* C3.  For every number of a returned frequency table, percentage =       *)
(* count / (draws in the window x numbers per draw) x 100, so it lies in   *)
(* 0 .. 100, and it is 0 exactly when the count is 0.                      *)
(***************************************************************************)
C3_Percentage ==
    (Called("analyze_number_frequency") /\ Returned)
    => LET filtered == Cardinality(DrawsInWindow(op.time_period))
           \* percentage p of a number with count c, for per numbers per draw
           Right(p, c, per) ==
               /\ p.den > 0
               /\ p.num * (filtered * per) = c * 100 * p.den
               /\ 0 <= p.num /\ p.num <= 100 * p.den
               /\ (p.num = 0) <=> (c = 0)
       IN  /\ \A num \in DOMAIN ret.value.main :
                  Right(ret.value.main[num].percentage, ret.value.main[num].count, 5)
           /\ \A num \in DOMAIN ret.value.stars :
                  Right(ret.value.stars[num].percentage, ret.value.stars[num].count, 2)

\* a table with a number that every draw of the window holds (3 is a star of
\* both recorded draws) next to numbers that none holds
C3_Witness ==
    /\ Called("analyze_number_frequency")
    /\ Returned
    /\ Cardinality(DrawsInWindow(op.time_period)) = 2
    /\ DOMAIN ret.value.stars = 1 .. 12
    /\ ret.value.stars[3].count = 2
    /\ ret.value.stars[3].percentage = [num |-> 200, den |-> 4]
    /\ ret.value.stars[1].percentage.num = 0

(***************************************************************************)
(* C4.  Every frequency table returned for a non-empty window has an       *)
(* entry for every integer 1 .. MAX (50 main, 12 stars), each with exactly *)
(* one tier, and the tier sizes are 10/15/15/10 for main and 2/3/3/4 for   *)
(* stars (floor(MAX*0.2), floor(MAX*0.3), floor(MAX*0.3), the remainder),  *)
(* whatever the counts are.                                                *)
(***************************************************************************)
C4_TierSizes ==
    (/\ Called("analyze_number_frequency")
     /\ Returned
     /\ DrawsInWindow(op.time_period) # {})
    => /\ DOMAIN ret.value.main = 1 .. 50
       /\ DOMAIN ret.value.stars = 1 .. 12
       /\ \A table \in ReturnedTables : \A num \in DOMAIN table :
              table[num].status \in {"hot", "warm", "cool", "cold"}
       /\ Cardinality(InTier(ret.value.main, "hot")) = 10
       /\ Cardinality(InTier(ret.value.main, "warm")) = 15
       /\ Cardinality(InTier(ret.value.main, "cool")) = 15
       /\ Cardinality(InTier(ret.value.main, "cold")) = 10
       /\ Cardinality(InTier(ret.value.stars, "hot")) = 2
       /\ Cardinality(InTier(ret.value.stars, "warm")) = 3
       /\ Cardinality(InTier(ret.value.stars, "cool")) = 3
       /\ Cardinality(InTier(ret.value.stars, "cold")) = 4

\* a table in which equal counts straddle a tier boundary: a single draw in
\* the window, so 45 main numbers have count 0 and fill hot, warm, cool, cold
C4_Witness ==
    /\ Called("analyze_number_frequency")
    /\ Returned
    /\ Cardinality(DrawsInWindow(op.time_period)) = 1
    /\ DOMAIN ret.value.main = 1 .. 50
    /\ \E a \in InTier(ret.value.main, "hot"), b \in InTier(ret.value.main, "cold") :
           ret.value.main[a].count = 0 /\ ret.value.main[b].count = 0

(***************************************************************************)
(* C5.  The tier of each number is the tier of its rank in the ordering of *)
(* all numbers by (count descending, number ascending): a number with a    *)
(* strictly higher count never gets a colder tier than one with a lower    *)
(* count, among equal counts the smaller number never gets a colder tier   *)
(* than the larger, and a number whose count is strictly the highest is    *)
(* hot.                                                                    *)
(***************************************************************************)
C5_TierByRank ==
    (Called("analyze_number_frequency") /\ Returned)
    => \A table \in ReturnedTables :
           LET max == Len(table)
               Before(m, n) ==
                   \/ table[m].count > table[n].count
                   \/ table[m].count = table[n].count /\ m < n
               rank(n) == Cardinality({m \in DOMAIN table : Before(m, n)})
               hot == (max * 2) \div 10
               warm == (max * 3) \div 10
               TierOfRank(r) ==
                   IF r < hot THEN "hot"
                   ELSE IF r < hot + warm THEN "warm"
                   ELSE IF r < hot + warm + warm THEN "cool"
                   ELSE "cold"
           IN  /\ \A n \in DOMAIN table : table[n].status = TierOfRank(rank(n))
               /\ \A m, n \in DOMAIN table :
                      Before(m, n) =>
                          TierRank(table[m].status) <= TierRank(table[n].status)
               /\ \A n \in DOMAIN table :
                      (\A m \in DOMAIN table \ {n} : table[n].count > table[m].count)
                          => table[n].status = "hot"

\* star 3 is in both draws of the window and so strictly the most frequent;
\* stars 9 and 12 tie for the second hot place, which the smaller number gets
C5_Witness ==
    /\ Called("analyze_number_frequency")
    /\ Returned
    /\ DOMAIN ret.value.stars = 1 .. 12
    /\ ret.value.stars[3].count = 2
    /\ ret.value.stars[9].count = 1 /\ ret.value.stars[12].count = 1
    /\ ret.value.stars[3].status = "hot"
    /\ ret.value.stars[9].status = "hot"
    /\ ret.value.stars[12].status = "warm"

(***************************************************************************)
(* C6.  When draws are loaded but none of them falls inside the requested  *)
(* window, analyze_number_frequency returns an empty table for each family *)
(* instead of raising an error.                                            *)
(***************************************************************************)
C6_EmptyWindowEmptyTable ==
    (/\ Called("analyze_number_frequency")
     /\ ~IsNoData(draws_df)
     /\ DrawsInWindow(op.time_period) = {})
    => /\ Returned
       /\ ret.value.main = EmptyDict
       /\ ret.value.stars = EmptyDict

(***************************************************************************)
(* C7.  When no draws are loaded (the table is empty or the query failed), *)
(* analyze_number_frequency returns empty tables for both families for     *)
(* every window, never a table of zero counts.                             *)
(***************************************************************************)
C7_NoDataEmptyTables ==
    (Called("analyze_number_frequency") /\ draws_df.none)
    => /\ Returned
       /\ DOMAIN ret.value.main = {}
       /\ DOMAIN ret.value.stars = {}

\* no draws loaded and a recognized window asked for
C7_Witness ==
    /\ Called("analyze_number_frequency")
    /\ draws_df.none
    /\ op.time_period = "3months"
    /\ Returned
    /\ ret.value.main = EmptyDict

(***************************************************************************)
(* C8.  No public operation returns a partial combination: every           *)
(* recommendation in the list returned by combine_strategies, and every    *)
(* dictionary returned by get_hot_cold_recommendations that carries a      *)
(* strategy tag, has exactly 5 main numbers and 2 lucky stars, for every   *)
(* draw history including an empty one.                                    *)
(***************************************************************************)
C8_NoPartialCombination ==
    /\ (Called("combine_strategies") /\ Returned)
       => \A k \in DOMAIN ret.value :
              /\ Len(ret.value[k].main_numbers) = 5
              /\ Len(ret.value[k].lucky_stars) = 2
    /\ (/\ Called("get_hot_cold_recommendations")
        /\ Returned
        /\ "strategy" \in DOMAIN ret.value)
       => /\ Len(ret.value.main_numbers) = 5
          /\ Len(ret.value.lucky_stars) = 2

(***************************************************************************)
(* C9.  For every window token that is not one of all, 10years, year,      *)
(* 6months, 3months, analyze_number_frequency returns exactly the tables   *)
(* it returns for the window all, and raises no error.                     *)
(***************************************************************************)
C9_UnknownWindowIsAll ==
    (/\ Called("analyze_number_frequency")
     /\ op.time_period \notin {"all", "10years", "year", "6months", "3months"})
    => /\ Returned
       /\ ret = analyze_number_frequency(draws_df, today, "all")

\* an unrecognized token on a history with draws older than every window:
\* star 3 is in every draw, and every draw is counted
C9_Witness ==
    /\ Called("analyze_number_frequency")
    /\ op.time_period = "month"
    /\ HasDrawOfAge(3651) /\ HasDrawOfAge(91)
    /\ Returned
    /\ DOMAIN ret.value.stars = 1 .. 12
    /\ ret.value.stars[3].count = Len(draws_df.rows)

(***************************************************************************)
(* C10.  For each recognized window of D days (10years 3650, year 365,     *)
(* 6months 182, 3months 91) a draw is counted if and only if its date >=   *)
(* today - D: a draw exactly D days old is counted, a draw D + 1 days old  *)
(* is not, and the window all counts every draw.                           *)
(***************************************************************************)
C10_WindowBoundary ==
    (/\ Called("analyze_number_frequency")
     /\ op.time_period \in {"all", "10years", "year", "6months", "3months"})
    => LET W == DrawsInWindow(op.time_period)
       IN  /\ Returned =>
                  /\ \A num \in DOMAIN ret.value.main :
                         ret.value.main[num].count = HoldingMain(W, num)
                  /\ \A num \in DOMAIN ret.value.stars :
                         ret.value.stars[num].count = HoldingStar(W, num)
           /\ ~Returned => W = {}
           /\ (op.time_period = "all" /\ ~draws_df.none)
                  => /\ Returned
                     /\ SumOfCounts(ret.value.main) = 5 * Len(draws_df.rows)

\* two draws loaded, one exactly 91 days old and one 92 days old: the
\* 3 month table counts the first alone
C10_Witness ==
    /\ Called("analyze_number_frequency")
    /\ op.time_period = "3months"
    /\ Len(draws_df.rows) = 2
    /\ HasDrawOfAge(91) /\ HasDrawOfAge(92)
    /\ Returned
    /\ SumOfCounts(ret.value.main) = 5
    /\ \A num \in 1 .. 50 :
           ret.value.main[num].count =
               IF \E j \in 1 .. 5 : draws_df.rows[2].main_numbers[j] = num
               THEN 1 ELSE 0

(***************************************************************************)
(* Vocabulary of the prediction properties.                                *)
(***************************************************************************)
\* the 7 numbers of a draw: 5 main, then 2 stars
SlotsOf(row) == row.main_numbers \o row.lucky_stars

\* the returned value is one of the two insufficient-data failures
InsufficientDataFailure ==
    /\ Returned
    /\ ~ret.value.success
    /\ ret.value.error \in {"Insufficient data",
                            "Insufficient data after preparation"}

\* the main numbers that occur in the loaded draws
MainNumbersDrawn ==
    {draws_df.rows[i].main_numbers[j] : i \in DOMAIN draws_df.rows, j \in 1 .. 5}

(***************************************************************************)
(* C11.  generate_prediction_model returns the insufficient-data failure   *)
(* whenever no draws are loaded or fewer than lookback + 10 are (19 draws  *)
(* with lookback 10), and never returns it when lookback + 10 or more are  *)
(* loaded.                                                                 *)
(***************************************************************************)
C11_InsufficientData ==
    Called("generate_prediction_model")
        => (InsufficientDataFailure
               <=> (\/ draws_df.none
                    \/ Len(draws_df.rows) < op.lookback_periods + 10))

C11_Witness ==
    /\ Called("generate_prediction_model")
    /\ ~draws_df.none
    /\ op.lookback_periods = 10
    /\ Len(draws_df.rows) = op.lookback_periods + 9
    /\ InsufficientDataFailure

(***************************************************************************)
(* C12.  For every draw history, an empty or unloaded one included, and    *)
(* every lookback, generate_prediction_model returns: either a success     *)
(* result or a failure value that carries an error text.  A fault raised   *)
(* while preparing, training or predicting comes back as such a failure    *)
(* and is never raised to the caller.                                      *)
(***************************************************************************)
C12_FailureIsReturned ==
    Called("generate_prediction_model")
        => /\ Returned
           /\ \/ ret.value.success
              \/ ~ret.value.success /\ "error" \in DOMAIN ret.value

C12_Witness ==
    /\ Called("generate_prediction_model")
    /\ ~draws_df.none
    /\ Returned
    /\ ~ret.value.success
    /\ ret.value.error = "ValueError"

(***************************************************************************)
(* C13.  Every successful result of generate_prediction_model has exactly  *)
(* 5 distinct main numbers in 1 .. 50 and exactly 2 distinct lucky stars   *)
(* in 1 .. 12, each list sorted ascending, also when several slot models   *)
(* predicted the same number.                                              *)
(***************************************************************************)
C13_PredictionShape ==
    (Called("generate_prediction_model") /\ Returned /\ ret.value.success)
        => /\ Len(ret.value.main_numbers) = 5
           /\ StrictlyAscending(ret.value.main_numbers)
           /\ \A j \in 1 .. 5 : ret.value.main_numbers[j] \in 1 .. 50
           /\ Len(ret.value.lucky_stars) = 2
           /\ StrictlyAscending(ret.value.lucky_stars)
           /\ \A j \in 1 .. 2 : ret.value.lucky_stars[j] \in 1 .. 12

\* a success that holds a filled-in number: two slots predicted the same one
C13_Witness ==
    /\ Called("generate_prediction_model")
    /\ Returned
    /\ ret.value.success
    /\ \E j \in 1 .. 5 : ret.value.main_numbers[j] \notin MainNumbersDrawn

C16_AllCombinations ==
    (Called("generate_complete_analysis") /\ Returned)
        => LET recs == ret.value.recommendations
           IN  /\ \A s \in DOMAIN strategies, t \in DOMAIN time_periods :
                      Cardinality({i \in DOMAIN recs :
                          /\ recs[i].type = "frequency"
                          /\ recs[i].strategy = strategies[s]
                          /\ recs[i].time_period = time_periods[t]}) = 1
               /\ Cardinality({i \in DOMAIN recs :
                                  recs[i].type = "prediction"}) = 1

(***************************************************************************)
(* C17.  When the draw history is empty, generate_complete_analysis        *)
(* returns a report (with empty or failed results) and raises no           *)
(* exception.                                                              *)
(***************************************************************************)
C17_EmptyHistoryReport ==
    (Called("generate_complete_analysis") /\ draws_df.none) => Returned

(***************************************************************************)
(* C19.  _prepare_prediction_data yields |draws| - lookback samples.       *)
(* Sample k (from 0) has as features the 7 numbers (5 main, then 2 stars)  *)
(* of each of the draws k .. k + lookback - 1 in date order, 7 x lookback  *)
(* values, and as target the main numbers and the stars of the draw        *)
(* k + lookback; the features stop one draw before the target draw.        *)
(***************************************************************************)
C19_TrainingSamples ==
    Called("_prepare_prediction_data")
        => LET lookback == op.lookback_periods
               rows == draws_df.rows
               samples == ret.value
           IN  /\ Len(samples) = Len(rows) - lookback
               /\ \A k \in 0 .. (Len(samples) - 1) :
                      /\ Len(samples[k + 1].features) = 7 * lookback
                      /\ \A d \in 0 .. (lookback - 1), slot \in 1 .. 7 :
                             samples[k + 1].features[7 * d + slot]
                                 = SlotsOf(rows[k + d + 1])[slot]
                      /\ samples[k + 1].target_main
                             = rows[k + lookback + 1].main_numbers
                      /\ samples[k + 1].target_stars
                             = rows[k + lookback + 1].lucky_stars

C19_Witness ==
    /\ Called("_prepare_prediction_data")
    /\ op.lookback_periods = 10
    /\ Len(ret.value) >= 10
    /\ ret.value[1].target_main # ret.value[2].target_main

(***************************************************************************)
(* C20.  The feature vector of _get_latest_features is built from the last *)
(* lookback draws of the history in date order (draws |draws| - lookback   *)
(* .. |draws| - 1 from 0), has the length and slot layout, 7 x lookback,   *)
(* of every training feature vector, and ends with the most recent draw.   *)
(***************************************************************************)
C20_LatestFeatures ==
    Called("_get_latest_features")
        => LET lookback == op.lookback_periods
               rows == draws_df.rows
               latest == ret.value
           IN  /\ Len(latest) = 7 * lookback
               /\ \A d \in 0 .. (lookback - 1), slot \in 1 .. 7 :
                      latest[7 * d + slot]
                          = SlotsOf(rows[Len(rows) - lookback + d + 1])[slot]
               /\ \A k \in DOMAIN prepare_prediction_data(rows, lookback) :
                      Len(prepare_prediction_data(rows, lookback)[k].features)
                          = Len(latest)
               /\ lookback > 0
                      => SubSeq(latest, Len(latest) - 6, Len(latest))
                             = SlotsOf(rows[Len(rows)])

C20_Witness ==
    /\ Called("_get_latest_features")
    /\ op.lookback_periods = 10
    /\ Len(draws_df.rows) >= 20
    /\ Len(ret.value) = 70

(***************************************************************************)
(* C14.  Given a list of values in 1 .. max_value with at most             *)
(* required_count distinct values, _ensure_unique_predictions returns      *)
(* exactly required_count pairwise distinct values in 1 .. max_value: the  *)
(* distinct input values first, then filled-in values, none of which       *)
(* occurs in the input.  When the input has a single distinct value        *)
(* ([3,3,3,3,3]) that value is the first element of the result.            *)
(***************************************************************************)
C14_EnsureUnique ==
    Called("_ensure_unique_predictions")
        => LET given == {op.predictions[j] : j \in DOMAIN op.predictions}
               result == ret.value
           IN  Cardinality(given) <= op.required_count
                   => /\ Len(result) = op.required_count
                      /\ \A i, j \in DOMAIN result :
                             i # j => result[i] # result[j]
                      /\ \A i \in DOMAIN result : result[i] \in 1 .. op.max_value
                      /\ given = {result[i] : i \in 1 .. Cardinality(given)}
                      /\ \A i \in DOMAIN result :
                             i > Cardinality(given) => result[i] \notin given
                      /\ Cardinality(given) = 1 => result[1] = op.predictions[1]

C14_Witness ==
    /\ Called("_ensure_unique_predictions")
    /\ op.predictions = <<3, 3, 3, 3, 3>>
    /\ op.required_count = 5
    /\ Len(ret.value) = 5
    /\ ret.value[1] = 3
    /\ ret.value[5] = 50

(***************************************************************************)
(* C18.  After any sequence of ingestion commands in any order             *)
(* (generate_sample_data, save_draws_to_database, import_year,             *)
(* process_draws), also with batches that hold the same date twice, the    *)
(* draws table holds at most one draw per date.                            *)
(***************************************************************************)
C18_OneDrawPerDate ==
    \A row, other \in store : row.draw_date = other.draw_date => row = other

\* a second command ran a batch with one date twice, and the date is stored
C18_Witness ==
    /\ Steps = 2
    /\ op.name \in {"save_draws_to_database", "import_year", "process_draws"}
    /\ Len(op.draws) = 2
    /\ op.draws[1].draw_date = op.draws[2].draw_date
    /\ \E row \in store : row.draw_date = op.draws[1].draw_date
    /\ Cardinality(store) = 2

(***************************************************************************)
(* C21.  _split_data partitions the samples identically for the main and   *)
(* the star targets: row i of the training (test) features, main targets   *)
(* and star targets comes from one and the same sample, train and test are *)
(* disjoint and together cover all samples, and a second call with the     *)
(* same arguments gives the same partition.                                *)
(***************************************************************************)
\* train and test list sample numbers that partition 1 .. n, and the six
\* returned arrays are the samples in these orders
SplitBy(train, test) ==
    /\ Len(train) = Len(ret.value.X_train)
    /\ Len(test) = Len(ret.value.X_test)
    /\ {train[i] : i \in DOMAIN train} \cap {test[i] : i \in DOMAIN test} = {}
    /\ {train[i] : i \in DOMAIN train} \cup {test[i] : i \in DOMAIN test}
           = DOMAIN op.X
    /\ Len(train) + Len(test) = Len(op.X)
    /\ ret.value.y_main_train = [i \in DOMAIN train |-> op.y_main[train[i]]]
    /\ ret.value.y_stars_train = [i \in DOMAIN train |-> op.y_stars[train[i]]]
    /\ ret.value.y_main_test = [i \in DOMAIN test |-> op.y_main[test[i]]]
    /\ ret.value.y_stars_test = [i \in DOMAIN test |-> op.y_stars[test[i]]]

\* the sample whose feature vector is x (the feature vectors are distinct)
SampleOf(x) == CHOOSE k \in DOMAIN op.X : op.X[k] = x

FirstAppearances(list) ==
    LET firsts == {i \in DOMAIN list : \A j \in 1 .. (i - 1) : list[j] # list[i]}
    IN  [k \in 1 .. Cardinality(firsts) |->
            list[CHOOSE i \in firsts :
                     Cardinality({j \in firsts : j < i}) = k - 1]]

C22_FirstAppearanceOrder ==
    Called("_ensure_unique_predictions")
        => (Cardinality({op.predictions[j] : j \in DOMAIN op.predictions})
                > op.required_count
              => ret.value = SubSeq(FirstAppearances(op.predictions), 1,
                                    op.required_count))

(***************************************************************************)
(* C23.  _select_numbers returns the concatenation, in plan order, of the  *)
(* first min(count, size of the tier) numbers of each plan entry's tier,   *)
(* the tier ordered by count descending and, for equal counts, smaller     *)
(* number first; a tier with fewer numbers than asked for gives all of its *)
(* numbers, and the call returns.                                          *)
(***************************************************************************)
\* the entries of a tier are ordered by count descending, ties by number
TierOrdered(entries) ==
    \A i, j \in DOMAIN entries :
        i < j => \/ entries[i][2] > entries[j][2]
                 \/ entries[i][2] = entries[j][2] /\ entries[i][1] < entries[j][1]

\* what the k-th plan entry contributes
Taken(k) ==
    Min(op.selection_counts[k][2],
        Len(op.numbers_by_status[op.selection_counts[k][1]]))

\* how many numbers the plan entries before the k-th contribute
RECURSIVE TakenBefore(_)
TakenBefore(k) == IF k <= 1 THEN 0 ELSE TakenBefore(k - 1) + Taken(k - 1)

C23_SelectNumbers ==
    Called("_select_numbers")
        => /\ Returned
           /\ \A status \in Statuses : TierOrdered(op.numbers_by_status[status])
           /\ Len(ret.value) = TakenBefore(Len(op.selection_counts) + 1)
           /\ \A k \in DOMAIN op.selection_counts :
                  \A i \in 1 .. Taken(k) :
                      ret.value[TakenBefore(k) + i]
                          = op.numbers_by_status[op.selection_counts[k][1]][i][1]

C23_Witness ==
    /\ Called("_select_numbers")
    /\ Returned
    /\ op.selection_counts = << <<"warm", 4>>, <<"hot", 1>> >>
    /\ Len(op.numbers_by_status["warm"]) = 3
    /\ Len(ret.value) = 4
    /\ \E i \in 1 .. 2 : op.numbers_by_status["warm"][i][2]
                             = op.numbers_by_status["warm"][i + 1][2]
    /\ op.numbers_by_status["warm"][1][2] > op.numbers_by_status["warm"][3][2]

(***************************************************************************)
(* C24.  A built-in strategy picks its numbers from the tiers in the       *)
(* counts of its plan, 5 main numbers and 2 stars in all: hot = 4 hot +    *)
(* 1 warm main and 2 hot stars; cold = 4 cold + 1 cool main and 2 cold     *)
(* stars; mixed = 2 hot + 3 cold main and 1 hot + 1 cold star; balanced =  *)
(* 2 hot + 1 warm + 1 cool + 1 cold main and 1 hot + 1 cold star.          *)
(***************************************************************************)
\* how many of the picked numbers have the status in the table
PicksIn(picked, table, status) ==
    Cardinality({i \in DOMAIN picked : table[picked[i]].status = status})

TierCounts(hot, warm, cool, cold) ==
    [status \in Statuses |->
        IF status = "hot" THEN hot ELSE IF status = "warm" THEN warm
        ELSE IF status = "cool" THEN cool ELSE cold]

PlanOf ==
    [strategy \in BuiltInStrategies |->
        IF strategy = "hot"
        THEN [main |-> TierCounts(4, 1, 0, 0), stars |-> TierCounts(2, 0, 0, 0)]
        ELSE IF strategy = "cold"
        THEN [main |-> TierCounts(0, 0, 1, 4), stars |-> TierCounts(0, 0, 0, 2)]
        ELSE IF strategy = "mixed"
        THEN [main |-> TierCounts(2, 0, 0, 3), stars |-> TierCounts(1, 0, 0, 1)]
        ELSE [main |-> TierCounts(2, 1, 1, 1), stars |-> TierCounts(1, 0, 0, 1)]]

\* a call with a built-in strategy that returned picked numbers
PickedByBuiltIn ==
    /\ Called("get_hot_cold_recommendations")
    /\ Returned
    /\ op.strategy \in BuiltInStrategies
    /\ ret.value.main_numbers # << >>

C24_PlanCounts ==
    PickedByBuiltIn
        => /\ Len(ret.value.main_numbers) = 5
           /\ Len(ret.value.lucky_stars) = 2
           /\ \A status \in Statuses :
                  /\ PicksIn(ret.value.main_numbers, op.freq.value.main, status)
                         = PlanOf[op.strategy].main[status]
                  /\ PicksIn(ret.value.lucky_stars, op.freq.value.stars, status)
                         = PlanOf[op.strategy].stars[status]

C24_Witness ==
    /\ PickedByBuiltIn
    /\ op.strategy = "mixed"
    /\ PicksIn(ret.value.main_numbers, op.freq.value.main, "cold") = 3
    /\ PicksIn(ret.value.lucky_stars, op.freq.value.stars, "hot") = 1

(***************************************************************************)
(* C30.  A strategy name other than hot, cold and mixed (balanced, or an   *)
(* unknown name) gets the plan of balanced: the call fails only if its     *)
(* frequency analysis fails, and a result with picked numbers has 2 hot +  *)
(* 1 warm + 1 cool + 1 cold main numbers and 1 hot + 1 cold star and       *)
(* carries the name as it was passed.                                      *)
(***************************************************************************)
C30_UnknownStrategy ==
    (Called("get_hot_cold_recommendations")
        /\ op.strategy \notin {"hot", "cold", "mixed"})
        => /\ ret.kind = "raise" => op.freq.kind = "raise"
           /\ ret.kind \in {"return", "raise"}
           /\ (Returned /\ ret.value.main_numbers # << >>)
                  => /\ ret.value.strategy = op.strategy
                     /\ \A status \in Statuses :
                            /\ PicksIn(ret.value.main_numbers, op.freq.value.main,
                                       status) = PlanOf["balanced"].main[status]
                            /\ PicksIn(ret.value.lucky_stars, op.freq.value.stars,
                                       status) = PlanOf["balanced"].stars[status]

C30_Witness ==
    /\ Called("get_hot_cold_recommendations")
    /\ Returned
    /\ op.strategy = "lucky"
    /\ ret.value.main_numbers # << >>
    /\ ret.value.strategy = "lucky"
    /\ PicksIn(ret.value.lucky_stars, op.freq.value.stars, "cold") = 1

(***************************************************************************)
(* C25.  process_draws deduplicates by date: after a call that returns,    *)
(* every draw of the batch whose date was not in the store is stored, and  *)
(* a draw is left out only if its date was stored already; also on calls   *)
(* that follow another, with draws as LotteryResultsClient.parse_draw      *)
(* makes them (draw number 0).                                             *)
(***************************************************************************)
DatesOf(table) == {row.draw_date : row \in table}

\* the draws of the batch are well-formed and numbered as parse_draw does
FromParseDraw(draws) ==
    \A i \in DOMAIN draws : IsWellFormed(draws[i]) /\ draws[i].draw_number = 0

C25_DedupByDate ==
    [][(op'.name = "process_draws" /\ ret'.kind = "return"
           /\ FromParseDraw(op'.draws))
          => \A i \in DOMAIN op'.draws :
                 op'.draws[i].draw_date \notin DatesOf(store)
                     => op'.draws[i].draw_date \in DatesOf(store')]_vars

(***************************************************************************)
(* C26.  The value process_draws returns is the number of draws the call   *)
(* added to the store, also for a batch with a malformed later record that *)
(* rolls the session back; a call that raises leaves the store unchanged.  *)
(***************************************************************************)
C26_ReturnedCountIsAdded ==
    [][op'.name = "process_draws"
          => /\ ret'.kind = "return"
                    => /\ store \subseteq store'
                       /\ Cardinality(store') = Cardinality(store) + ret'.value
             /\ ret'.kind = "raise" => store' = store]_vars

(***************************************************************************)
(* C27.  collect_all_historical_data terminates after at most 20 batch     *)
(* fetches, and stops before the 20th exactly when its retry counter       *)
(* reaches 3.  A batch that added no draw, or that raised an error, adds 1 *)
(* to the counter; a batch that added at least one draw sets it to 0; a    *)
(* batch without draws, or without parsable draws, leaves it unchanged.    *)
(***************************************************************************)
InLoop == op.name = "collect_all_historical_data" /\ op.event # "not_started"

C27_CollectLoop ==
    /\ [](InLoop
            => /\ op.batch_num <= 20
               /\ op.retry_count <= 3
               /\ Returned <=> (op.batch_num = 20 \/ op.retry_count = 3))
    /\ [][(InLoop /\ op'.batch_num = op.batch_num + 1)
             => /\ op'.event \in {"no_draws", "no_parsable"}
                    => op'.retry_count = op.retry_count /\ store' = store
                /\ op'.event = "error"
                    => op'.retry_count = op.retry_count + 1 /\ store' = store
                /\ op'.event = "processed"
                    => /\ store \subseteq store'
                       /\ op'.retry_count =
                              IF store' = store THEN op.retry_count + 1 ELSE 0]_vars
    /\ (InLoop ~> Returned)

C27_Witness ==
    /\ InLoop
    /\ Returned
    /\ op.batch_num = 7
    /\ op.retry_count = 3
    /\ op.total_processed = 2
    /\ op.event = "processed"

\* the loop runs out of batches with the counter below 3
C27_AllBatches ==
    /\ InLoop
    /\ Returned
    /\ op.batch_num = 20
    /\ op.retry_count < 3

(***************************************************************************)
(* C28.  combine_strategies(n) returns a list: first the Machine Learning  *)
(* recommendation if and only if the prediction succeeded (the history has *)
(* the 20 draws the default lookback needs), then exactly min(n - 1, 16)   *)
(* frequency recommendations, the i-th (from 0) made with the strategy     *)
(* [hot, cold, balanced, mixed][i mod 4] and the window                    *)
(* [3months, 6months, year, all][i div 4].  A failed prediction is left    *)
(* out and does not fail the call.                                         *)
(***************************************************************************)
\* the record carries the field with that value, or does not carry the field
FieldIs(record, field, value) ==
    field \in DOMAIN record => record[field] = value

C28_CombinedList ==
    Called("combine_strategies")
        => /\ Returned
           /\ LET recs == ret.value
                  n == Min(op.recommendations_count - 1, 16)
                  predicted == ~draws_df.none /\ Len(draws_df.rows) >= 20
                  first == IF predicted THEN 1 ELSE 0
              IN  /\ Len(recs) = first + n
                  /\ predicted => /\ recs[1].type = "prediction"
                                  /\ recs[1].strategy = "Machine Learning"
                  /\ \A i \in 0 .. (n - 1) :
                         /\ recs[first + i + 1].type = "frequency"
                         /\ FieldIs(recs[first + i + 1], "strategy",
                                <<"hot", "cold", "balanced", "mixed">>[(i % 4) + 1])
                         /\ FieldIs(recs[first + i + 1], "time_period",
                                <<"3months", "6months", "year", "all">>[(i \div 4) + 1])

(***************************************************************************)
(* C29.  The fill loop of _ensure_unique_predictions terminates whenever   *)
(* required_count <= max_value, given a fair random source that in the end *)
(* gives every value of 1 .. max_value.  A pass adds one new value or      *)
(* leaves the list as it is: the list never shrinks and never gains a      *)
(* duplicate.                                                              *)
(***************************************************************************)
InFillLoop == op.name = "_ensure_unique_predictions"

C29_FillLoop ==
    /\ [](InFillLoop
            => \A i, j \in DOMAIN op.unique_predictions :
                   i # j => op.unique_predictions[i] # op.unique_predictions[j])
    /\ [][(InFillLoop /\ op'.name = op.name)
             => \/ op'.unique_predictions = op.unique_predictions
                \/ \E value \in 1 .. op.max_value :
                       /\ \A j \in DOMAIN op.unique_predictions :
                              op.unique_predictions[j] # value
                       /\ op'.unique_predictions
                              = Append(op.unique_predictions, value)]_vars
    /\ ((InFillLoop /\ op.required_count <= op.max_value) ~> Returned)

C29_Witness ==
    /\ InFillLoop
    /\ Returned
    /\ op.predictions = <<2, 2>>
    /\ op.required_count = op.max_value
    /\ Len(ret.value) = op.max_value
    /\ ret.value[1] = 2
    /\ op.candidate = 1

====
